---- MODULE Spec2Model ----
(***************************************************************************)
(* Slashy keyboard-shortcut test suite: the result recorder                *)
(* (SlashyShortcutTester of slashy_test.py and slashy_shortcut_tests.py),  *)
(* its report builder, and the /run-tests handler of app.py that starts    *)
(* the driver as a subprocess and relays slashy_test_report.json.          *)
(*                                                                         *)
(* A recorded outcome keeps the fields the code branches on or that tell   *)
(* two outcomes apart (test_id, shortcut, status); description, notes and  *)
(* timestamp are copied through unread and are left out.                   *)
(*                                                                         *)
(* A Python float is modelled as the exact fraction num/den.  For the      *)
(* counts reachable here (far below 2^26) passed/total*100 in IEEE         *)
(* doubles compares against 0, 60, 80 and 100 exactly as the fraction does.*)
(***************************************************************************)
EXTENDS Integers, Sequences, FiniteSets, TLC

\* ---------------------------------------------------------------- bounds
MaxLen == 4         \* record_test calls made on the library recorder
MaxCount == 21       \* largest total drawn for the summary specification
MaxRuns == 3         \* driver runs started through /run-tests
MaxClicks == 3       \* presses of the page's Run button

\* ------------------------------------------------------------ input sets
SlashyTest == "slashy_test.py"
ShortcutTests == "slashy_shortcut_tests.py"
Scripts == {SlashyTest, ShortcutTests}

Tracked == {"PASS", "FAIL", "PARTIAL", "ERROR"}
Statuses == Tracked \cup {"UNTESTED", "SKIPPED"}

\* the record_test calls drawn for the library recorder (test_id is read by
\* slashy_shortcut_tests.py only)
Case(test_id, shortcut, status) ==
    [test_id |-> test_id, shortcut |-> shortcut, status |-> status]
Inputs ==
    {Case("001", "c", "PASS"), Case("002", "r", "PASS"),
     Case("005", "cmd+Up", "FAIL"), Case("010", "u", "PARTIAL"),
     Case("027", "Enter", "ERROR"), Case("028", "cmd+u", "UNTESTED"),
     Case("029", "x", "SKIPPED")}

None == [exc |-> "None"]

VARIABLES
    script,        \* which script's SlashyShortcutTester `tester` is
    tester,        \* the recorder object
    ret,           \* what the last call on the recorder returned / printed
    json_output,   \* the string returned by the last save_json_report (slashy_shortcut_tests.py)
    cwd,           \* working directory of the running process
    fs,            \* directory -> contents of slashy_test_report.json there
    clock,         \* datetime.now(), counted in recorders constructed
    req,           \* request -> where its run_tests handler is, and its response
    drv,           \* request -> the driver subprocess it started
    proc,          \* a driver script run from the shell
    page           \* the page served at /, as the browser shows it

vars == <<script, tester, ret, json_output, cwd, fs, clock, req, drv, proc, page>>

\* ---------------------------------------------------------------- floats
Float(n, d) == [exc |-> "float", num |-> n, den |-> d]
ZeroDivisionError == [exc |-> "ZeroDivisionError", num |-> 0, den |-> 1]

\* a / b
TrueDiv(a, b) == IF b = 0 THEN ZeroDivisionError ELSE Float(a, b)

\* x * k
Times(x, k) == IF x.exc = "float" THEN Float(x.num * k, x.den) ELSE x

\* x >= k
GE(x, k) == x.num >= k * x.den

\* x <= k
LE(x, k) == x.num <= k * x.den

\* x == y as numbers
EqF(x, y) == x.exc = "float" /\ y.exc = "float" /\ x.num * y.den = y.num * x.den

\* faulty variant: the third decimal cut off instead of rounded
Round2_truncating(x) ==
    IF x.exc = "float" THEN Float((x.num * 100) \div x.den, 100) ELSE x

\* round(x, 2): the nearest multiple of 0.01, ties to even
Round2(x) ==
    LET n == x.num * 100
        q == n \div x.den
        r == n % x.den
        h == IF 2 * r > x.den \/ (2 * r = x.den /\ q % 2 = 1) THEN q + 1 ELSE q
    IN  IF x.exc = "float" THEN Float(h, 100) ELSE x

\* ------------------------------------------------- slashy_test.py recorder
SlashyShortcutTester(now) ==
    [test_results |-> <<>>, total_tests |-> 0, passed_tests |-> 0,
     failed_tests |-> 0, partial_tests |-> 0, error_tests |-> 0,
     start_time |-> now]

\* faulty variant: total_tests incremented inside the status branches only
record_test_total_in_branches(self, shortcut, status) ==
    LET result == [shortcut |-> shortcut, status |-> status]
        appended == [self EXCEPT !.test_results = Append(@, result)]
    IN  IF status = "PASS"
        THEN [appended EXCEPT !.passed_tests = @ + 1, !.total_tests = @ + 1]
        ELSE IF status = "FAIL"
        THEN [appended EXCEPT !.failed_tests = @ + 1, !.total_tests = @ + 1]
        ELSE IF status = "PARTIAL"
        THEN [appended EXCEPT !.partial_tests = @ + 1, !.total_tests = @ + 1]
        ELSE IF status = "ERROR"
        THEN [appended EXCEPT !.error_tests = @ + 1, !.total_tests = @ + 1]
        ELSE appended

\* faulty variant: PARTIAL counted in the failed bucket
record_test_partial_as_failed(self, shortcut, status) ==
    LET result == [shortcut |-> shortcut, status |-> status]
        appended == [self EXCEPT !.test_results = Append(@, result)]
        counted ==
            IF status = "PASS" THEN [appended EXCEPT !.passed_tests = @ + 1]
            ELSE IF status \in {"FAIL", "PARTIAL"}
            THEN [appended EXCEPT !.failed_tests = @ + 1]
            ELSE IF status = "ERROR" THEN [appended EXCEPT !.error_tests = @ + 1]
            ELSE appended
    IN  [counted EXCEPT !.total_tests = @ + 1]

\* faulty variant: the ERROR branch missing, as in slashy_shortcut_tests.py
record_test_no_error_branch(self, shortcut, status) ==
    LET result == [shortcut |-> shortcut, status |-> status]
        appended == [self EXCEPT !.test_results = Append(@, result)]
        counted ==
            IF status = "PASS" THEN [appended EXCEPT !.passed_tests = @ + 1]
            ELSE IF status = "FAIL" THEN [appended EXCEPT !.failed_tests = @ + 1]
            ELSE IF status = "PARTIAL" THEN [appended EXCEPT !.partial_tests = @ + 1]
            ELSE appended
    IN  [counted EXCEPT !.total_tests = @ + 1]

\* faulty variant: a status outside the four buckets is rejected before anything
\* is recorded
record_test_validating(self, shortcut, status) ==
    LET result == [shortcut |-> shortcut, status |-> status]
        appended == [self EXCEPT !.test_results = Append(@, result)]
        counted ==
            IF status = "PASS" THEN [appended EXCEPT !.passed_tests = @ + 1]
            ELSE IF status = "FAIL" THEN [appended EXCEPT !.failed_tests = @ + 1]
            ELSE IF status = "PARTIAL" THEN [appended EXCEPT !.partial_tests = @ + 1]
            ELSE [appended EXCEPT !.error_tests = @ + 1]
    IN  IF status \in {"PASS", "FAIL", "PARTIAL", "ERROR"}
        THEN [counted EXCEPT !.total_tests = @ + 1]
        ELSE self

\* faulty variant: the new outcome inserted at the front of the list
record_test_prepend(self, shortcut, status) ==
    LET result == [shortcut |-> shortcut, status |-> status]
        inserted == [self EXCEPT !.test_results = <<result>> \o @]
        counted ==
            IF status = "PASS" THEN [inserted EXCEPT !.passed_tests = @ + 1]
            ELSE IF status = "FAIL" THEN [inserted EXCEPT !.failed_tests = @ + 1]
            ELSE IF status = "PARTIAL" THEN [inserted EXCEPT !.partial_tests = @ + 1]
            ELSE IF status = "ERROR" THEN [inserted EXCEPT !.error_tests = @ + 1]
            ELSE inserted
    IN  [counted EXCEPT !.total_tests = @ + 1]

\* faulty variant: the bucket chosen by the status of the first outcome of the
\* list instead of the one being recorded
record_test_first_status_wins(self, shortcut, status) ==
    LET result == [shortcut |-> shortcut, status |-> status]
        appended == [self EXCEPT !.test_results = Append(@, result)]
        first == appended.test_results[1].status
        counted ==
            IF first = "PASS" THEN [appended EXCEPT !.passed_tests = @ + 1]
            ELSE IF first = "FAIL" THEN [appended EXCEPT !.failed_tests = @ + 1]
            ELSE IF first = "PARTIAL" THEN [appended EXCEPT !.partial_tests = @ + 1]
            ELSE IF first = "ERROR" THEN [appended EXCEPT !.error_tests = @ + 1]
            ELSE appended
    IN  [counted EXCEPT !.total_tests = @ + 1]

record_test(self, shortcut, status) ==
    LET result == [shortcut |-> shortcut, status |-> status]
        appended == [self EXCEPT !.test_results = Append(@, result)]
        counted ==
            IF status = "PASS" THEN [appended EXCEPT !.passed_tests = @ + 1]
            ELSE IF status = "FAIL" THEN [appended EXCEPT !.failed_tests = @ + 1]
            ELSE IF status = "PARTIAL" THEN [appended EXCEPT !.partial_tests = @ + 1]
            ELSE IF status = "ERROR" THEN [appended EXCEPT !.error_tests = @ + 1]
            ELSE appended
    IN  [counted EXCEPT !.total_tests = @ + 1]

\* faulty variant: the guard against an empty recorder missing
get_pass_rate_unguarded(self) ==
    Times(TrueDiv(self.passed_tests, self.total_tests), 100)

get_pass_rate(self) ==
    IF self.total_tests = 0 THEN Float(0, 1)
    ELSE Times(TrueDiv(self.passed_tests, self.total_tests), 100)

\* faulty variant: the thresholds compared with > instead of >=
overall_status_strict(pass_rate) ==
    IF pass_rate.num > 80 * pass_rate.den THEN "PRODUCTION READY"
    ELSE IF pass_rate.num > 60 * pass_rate.den THEN "MOSTLY FUNCTIONAL"
    ELSE "NEEDS IMPROVEMENT"

\* the thresholds of print_summary
overall_status(pass_rate) ==
    IF GE(pass_rate, 80) THEN "PRODUCTION READY"
    ELSE IF GE(pass_rate, 60) THEN "MOSTLY FUNCTIONAL"
    ELSE "NEEDS IMPROVEMENT"

\* what print_summary writes to the console
print_summary(self) ==
    LET pass_rate == get_pass_rate(self)
    IN  [total |-> self.total_tests, passed |-> self.passed_tests,
         failed |-> self.failed_tests, partial |-> self.partial_tests,
         errors |-> self.error_tests, pass_rate |-> pass_rate,
         overall_status |-> overall_status(pass_rate)]

\* The report dict of save_json_report.  Its "test_results" is the
\* recorder's own list object (a reference), not a new list.
ListRef == [ref |-> TRUE, items |-> <<>>]
ListValue(items) == [ref |-> FALSE, items |-> items]

report_dict(self, now) ==
    [metadata |-> [start_time |-> self.start_time, end_time |-> now],
     summary |-> [total_tests |-> self.total_tests, passed |-> self.passed_tests,
                  partial |-> self.partial_tests, failed |-> self.failed_tests,
                  errors |-> self.error_tests,
                  pass_rate |-> Round2(get_pass_rate(self))],
     test_results |-> ListRef]

\* faulty variant: the dict kept as built, its list still the recorder's own
json_dump_keeps_reference(report, self) == report

\* json.dump / json.dumps: walks the dict and writes every element of the
\* list it references, as the list is at the time of the call
json_dump(report, self) ==
    [report EXCEPT !.test_results = ListValue(self.test_results)]

\* the list a built report shows, given the recorder it came from
ReportResults(doc, self) ==
    IF doc.test_results.ref THEN self.test_results ELSE doc.test_results.items

\* ----------------------------------------- slashy_shortcut_tests.py recorder
shortcut_tests_SlashyShortcutTester(now) ==
    [test_results |-> <<>>, total_tests |-> 0, passed_tests |-> 0,
     failed_tests |-> 0, partial_tests |-> 0, start_time |-> now]

shortcut_tests_record_test(self, test_id, shortcut, status) ==
    LET result == [test_id |-> test_id, shortcut |-> shortcut, status |-> status]
        appended == [self EXCEPT !.test_results = Append(@, result)]
        counted ==
            IF status = "PASS" THEN [appended EXCEPT !.passed_tests = @ + 1]
            ELSE IF status = "FAIL" THEN [appended EXCEPT !.failed_tests = @ + 1]
            ELSE IF status = "PARTIAL" THEN [appended EXCEPT !.partial_tests = @ + 1]
            ELSE appended
    IN  [counted EXCEPT !.total_tests = @ + 1]

shortcut_tests_get_pass_rate(self) ==
    IF self.total_tests = 0 THEN Float(0, 1)
    ELSE Times(TrueDiv(self.passed_tests, self.total_tests), 100)

shortcut_tests_print_summary(self) ==
    [total |-> self.total_tests, passed |-> self.passed_tests,
     partial |-> self.partial_tests, failed |-> self.failed_tests,
     pass_rate |-> shortcut_tests_get_pass_rate(self)]

\* the DETAILED RESULTS table: one line per recorded outcome, in order
shortcut_tests_print_detailed_results(self) ==
    [i \in 1..Len(self.test_results) |->
        LET result == self.test_results[i]
        IN  [test_id |-> result.test_id, shortcut |-> result.shortcut,
             status_display |-> result.status]]

shortcut_tests_report_dict(self, now) ==
    [metadata |-> [start_time |-> self.start_time, end_time |-> now],
     summary |-> [total_tests |-> self.total_tests, passed |-> self.passed_tests,
                  partial |-> self.partial_tests, failed |-> self.failed_tests,
                  pass_rate |-> Round2(shortcut_tests_get_pass_rate(self))],
     test_results |-> ListRef]

\* the verdict main() prints after run_all_tests
shortcut_tests_main_status(self) ==
    IF GE(shortcut_tests_get_pass_rate(self), 80) THEN "PRODUCTION READY"
    ELSE IF GE(shortcut_tests_get_pass_rate(self), 60) THEN "MOSTLY FUNCTIONAL"
    ELSE "NEEDS IMPROVEMENT"

\* ------------------------------------------------------ the report file
Dirs == {"appdir", "elsewhere"}          \* dirname(__file__) and any other directory
Absent == [state |-> "absent", doc |-> None]
Truncated == [state |-> "truncated", doc |-> None]   \* opened with "w", nothing flushed yet
Written(doc) == [state |-> "written", doc |-> doc]

Requests == {"A", "B"}       \* requests the threaded server may be handling at once

NoDriver == [pc |-> "none", tester |-> None, report |-> None, returncode |-> None]
NoRequest == [pc |-> "idle", response |-> None]
\* the page as loaded: button enabled, spinner and results panel hidden by
\* the style sheet, nothing in the panel
NoPage ==
    [disabled |-> FALSE, spinner |-> "none", btn_text |-> "Run Tests",
     results |-> "none", panel |-> None, alerts |-> <<>>, inflight |-> 0,
     clicks |-> 0]
NoProcess ==
    [pc |-> "shell", catalog |-> <<>>, i |-> 0, tester |-> None, stdout |-> <<>>,
     returncode |-> None]

\* --------------------------------------------- calls on a recorder object
\* the last call made on the recorder: its name, its arguments, and what it
\* returned or printed
Returned(op, args, value) == [op |-> op, args |-> args, value |-> value]

NewTester(s) ==
    IF s = SlashyTest THEN SlashyShortcutTester(0)
    ELSE shortcut_tests_SlashyShortcutTester(0)

RecordTest ==
    /\ Len(tester.test_results) < MaxLen
    /\ \E in \in Inputs :
          /\ \/ /\ script = SlashyTest
                /\ tester' = record_test(tester, in.shortcut, in.status)
             \/ /\ script = ShortcutTests
                /\ tester' = shortcut_tests_record_test(tester, in.test_id,
                                                        in.shortcut, in.status)
          /\ ret' = Returned("record_test", in, None)
    /\ UNCHANGED <<page, proc, script, json_output, cwd, fs, clock, req, drv>>

GetPassRate ==
    /\ ret' = Returned("get_pass_rate", None,
                       IF script = SlashyTest THEN get_pass_rate(tester)
                       ELSE shortcut_tests_get_pass_rate(tester))
    /\ UNCHANGED <<page, proc, script, tester, json_output, cwd, fs, clock, req, drv>>

PrintSummary ==
    /\ ret' = Returned("print_summary", None,
                       IF script = SlashyTest THEN print_summary(tester)
                       ELSE shortcut_tests_print_summary(tester))
    /\ UNCHANGED <<page, proc, script, tester, json_output, cwd, fs, clock, req, drv>>

PrintDetailedResults ==
    /\ script = ShortcutTests
    /\ ret' = Returned("print_detailed_results", None,
                       shortcut_tests_print_detailed_results(tester))
    /\ UNCHANGED <<page, proc, script, tester, json_output, cwd, fs, clock, req, drv>>

\* slashy_test.py: build the dict, write it to slashy_test_report.json in
\* the working directory, return None
SaveJsonReport ==
    /\ script = SlashyTest
    /\ fs' = [fs EXCEPT ![cwd] = Written(json_dump(report_dict(tester, 0), tester))]
    /\ ret' = Returned("save_json_report", None, None)
    /\ UNCHANGED <<page, proc, script, tester, json_output, cwd, clock, req, drv>>

\* slashy_shortcut_tests.py: build the dict, json.dumps it, print and
\* return the string
ShortcutTestsSaveJsonReport ==
    /\ script = ShortcutTests
    /\ json_output' = Written(json_dump(shortcut_tests_report_dict(tester, 0), tester))
    /\ ret' = Returned("save_json_report", None, json_output')
    /\ UNCHANGED <<page, proc, script, tester, cwd, fs, clock, req, drv>>

\* the closing lines of main() in slashy_shortcut_tests.py
ShortcutTestsMainStatus ==
    /\ script = ShortcutTests
    /\ ret' = Returned("main", None, shortcut_tests_main_status(tester))
    /\ UNCHANGED <<page, proc, script, tester, json_output, cwd, fs, clock, req, drv>>

Init ==
    /\ script \in Scripts
    /\ tester = NewTester(script)
    /\ ret = Returned("__init__", None, None)
    /\ json_output = Absent
    /\ cwd = "appdir"
    /\ fs = [d \in Dirs |-> Absent]
    /\ clock = 0
    /\ req = [r \in Requests |-> NoRequest]
    /\ drv = [r \in Requests |-> NoDriver]
    /\ proc = NoProcess
    /\ page = NoPage

Next ==
    \/ RecordTest
    \/ GetPassRate
    \/ PrintSummary
    \/ PrintDetailedResults
    \/ SaveJsonReport
    \/ ShortcutTestsSaveJsonReport
    \/ ShortcutTestsMainStatus

Spec == Init /\ [][Next]_vars

\* ------------------------------------------------- summary specification
\* The recorder after `total` record_test calls of which `passed` carry
\* PASS, followed by the calls that read the counts.
SummaryCalls(total, passed) ==
    [i \in 1..total |->
        IF i <= passed THEN Case("001", "c", "PASS")
        ELSE IF i % 3 = 0 THEN Case("005", "cmd+Up", "FAIL")
        ELSE IF i % 3 = 1 THEN Case("010", "u", "PARTIAL")
        ELSE Case("028", "cmd+u", "UNTESTED")]

RECURSIVE Replay(_, _, _)
Replay(s, self, calls) ==
    IF calls = <<>> THEN self
    ELSE Replay(s,
                IF s = SlashyTest
                THEN record_test(self, Head(calls).shortcut, Head(calls).status)
                ELSE shortcut_tests_record_test(self, Head(calls).test_id,
                                                Head(calls).shortcut, Head(calls).status),
                Tail(calls))

SummaryInit ==
    /\ script \in Scripts
    /\ \E total \in 0..MaxCount, passed \in 0..MaxCount :
          /\ passed <= total
          /\ tester = Replay(script, NewTester(script), SummaryCalls(total, passed))
          /\ ret = IF total = 0 THEN Returned("__init__", None, None)
                   ELSE Returned("record_test", SummaryCalls(total, passed)[total], None)
    /\ json_output = Absent
    /\ cwd = "appdir"
    /\ fs = [d \in Dirs |-> Absent]
    /\ clock = 0
    /\ req = [r \in Requests |-> NoRequest]
    /\ drv = [r \in Requests |-> NoDriver]
    /\ proc = NoProcess
    /\ page = NoPage

SummaryNext ==
    \/ GetPassRate
    \/ PrintSummary
    \/ ShortcutTestsMainStatus

SpecSummary == SummaryInit /\ [][SummaryNext]_vars

\* ------------------------------------------------ the driver, slashy_test.py
\* the record_test calls of run_all_tests, in order
Catalog ==
    <<Case("", "c", "PASS"), Case("", "r", "PASS"), Case("", "j", "PASS"),
      Case("", "k", "PASS"), Case("", "e", "PASS"), Case("", "s", "PASS"),
      Case("", "h", "PASS"), Case("", "cmd+b", "PASS"), Case("", "cmd+.", "PASS"),
      Case("", "Tab", "PASS"), Case("", "Shift+Tab", "PASS"),
      Case("", "cmd+Up", "FAIL"), Case("", "cmd+Down", "FAIL"),
      Case("", "u", "PARTIAL"), Case("", "#", "FAIL"), Case("", "!", "FAIL"),
      Case("", "/", "FAIL"), Case("", "n+l", "PASS"), Case("", "n+s", "PASS"),
      Case("", "p+a", "FAIL"), Case("", "cmd+a", "PASS"),
      Case("", "cmd+shift+a", "PASS"), Case("", "[", "PASS"), Case("", "]", "PASS"),
      Case("", "Enter", "PASS"), Case("", "cmd+u", "PASS")>>

\* run_all_tests up to print_summary: the recorder after the catalog's calls
run_all_tests(self) == Replay(SlashyTest, self, Catalog)

\* ---------------------------------------------------- app.py: /run-tests
\* json.load of the report file as the handler finds it, and the response
OK(body) == [status |-> "200", error |-> "", body |-> body]
ServerError(exception) == [status |-> "500", error |-> exception, body |-> None]

\* json.load: the parsed document, its test_results a new list of the
\* elements in file order
json_load(doc) ==
    [metadata |-> doc.metadata, summary |-> doc.summary,
     test_results |-> doc.test_results.items]

read_report(file) ==
    IF file.state = "absent" THEN ServerError("FileNotFoundError")
    ELSE IF file.state = "truncated" THEN ServerError("JSONDecodeError")
    ELSE OK(json_load(file.doc))

\* drivers started so far
Started == clock + Cardinality({r \in Requests : drv[r].pc = "main"})

\* run_tests, lines 286-287: start the driver; subprocess.run then blocks
\* until it exits
RunTestsStart(r) ==
    /\ req[r].pc = "idle"
    /\ Started < MaxRuns
    /\ req' = [req EXCEPT ![r] = [pc |-> "subprocess", response |-> None]]
    /\ drv' = [drv EXCEPT ![r] = [NoDriver EXCEPT !.pc = "main"]]
    /\ UNCHANGED <<page, proc, script, tester, ret, json_output, cwd, fs, clock>>

\* faulty variant: the handler holds off while a driver has the report open
RunTestsReadLocked(r) ==
    /\ req[r].pc = "subprocess"
    /\ drv[r].pc = "exited"
    /\ \A d \in Requests : drv[d].pc # "json.dump"
    /\ req' = [req EXCEPT ![r] = [pc |-> "done",
                                  response |-> read_report(fs["appdir"])]]
    /\ UNCHANGED <<page, proc, script, tester, ret, json_output, cwd, fs, clock, drv>>

\* run_tests, lines 290-294: the driver has exited, whatever its return
\* code; open the report next to app.py, parse it, answer
RunTestsRead(r) ==
    /\ req[r].pc = "subprocess"
    /\ drv[r].pc = "exited"
    /\ req' = [req EXCEPT ![r] = [pc |-> "done",
                                  response |-> read_report(fs["appdir"])]]
    /\ UNCHANGED <<page, proc, script, tester, ret, json_output, cwd, fs, clock, drv>>

\* the page's button is pressed again
RunTestsAgain(r) ==
    /\ req[r].pc = "done"
    /\ req' = [req EXCEPT ![r] = NoRequest]
    /\ UNCHANGED <<page, proc, script, tester, ret, json_output, cwd, fs, clock, drv>>

\* main(): a fresh recorder, then run_all_tests up to and including
\* print_summary
DriverMain(r) ==
    /\ drv[r].pc = "main"
    /\ drv' = [drv EXCEPT ![r].pc = "save_json_report",
                          ![r].tester = run_all_tests(SlashyShortcutTester(clock))]
    /\ clock' = clock + 1
    /\ UNCHANGED <<page, proc, script, tester, ret, json_output, cwd, fs, req>>

\* save_json_report, lines 175-196: build the dict, open the file for
\* writing in the process's working directory (truncating it), or fail
DriverSaveOpen(r) ==
    /\ drv[r].pc = "save_json_report"
    /\ \/ /\ fs' = [fs EXCEPT ![cwd] = Truncated]
          /\ drv' = [drv EXCEPT ![r].pc = "json.dump",
                                ![r].report = report_dict(drv[r].tester, clock)]
       \/ /\ drv' = [drv EXCEPT ![r].pc = "exited", ![r].returncode = "1"]
          /\ UNCHANGED fs
    /\ UNCHANGED <<page, proc, script, tester, ret, json_output, cwd, clock, req>>

\* save_json_report, lines 197-200, and the return from main: the report is
\* written out and the file closed, or the write fails
DriverSaveDump(r) ==
    /\ drv[r].pc = "json.dump"
    /\ \/ /\ fs' = [fs EXCEPT ![cwd] = Written(json_dump(drv[r].report, drv[r].tester))]
          /\ drv' = [drv EXCEPT ![r].pc = "exited", ![r].returncode = "0"]
       \/ /\ drv' = [drv EXCEPT ![r].pc = "exited", ![r].returncode = "1"]
          /\ UNCHANGED fs
    /\ UNCHANGED <<page, proc, script, tester, ret, json_output, cwd, clock, req>>

WebInit ==
    /\ script = SlashyTest
    /\ tester = NewTester(script)
    /\ ret = Returned("__init__", None, None)
    /\ json_output = Absent
    /\ cwd \in Dirs
    /\ fs = [d \in Dirs |-> Absent]
    /\ clock = 0
    /\ req = [r \in Requests |-> NoRequest]
    /\ drv = [r \in Requests |-> NoDriver]
    /\ proc = NoProcess
    /\ page = NoPage

WebNext ==
    \E r \in Requests :
        \/ RunTestsStart(r)
        \/ RunTestsRead(r)
        \/ RunTestsAgain(r)
        \/ DriverMain(r)
        \/ DriverSaveOpen(r)
        \/ DriverSaveDump(r)

SpecWeb == WebInit /\ [][WebNext]_vars

\* ------------------------------------------- a driver script run by hand
\* the record_test calls of run_all_tests in slashy_shortcut_tests.py
shortcut_tests_Catalog ==
    <<Case("001", "C", "PASS"), Case("002", "R", "PASS"), Case("003", "J", "PASS"),
      Case("004", "K", "PASS"), Case("005", "Cmd+Up", "FAIL"),
      Case("006", "Cmd+Down", "FAIL"), Case("007", "E", "PASS"),
      Case("008", "Shift+E", "UNTESTED"), Case("009", "S", "PASS"),
      Case("010", "U", "PARTIAL"), Case("011", "#", "FAIL"), Case("012", "!", "FAIL"),
      Case("013", "H", "PASS"), Case("014", "/", "FAIL"), Case("015", "N+L", "PASS"),
      Case("016", "N+S", "PASS"), Case("017", "P+A", "FAIL"),
      Case("018", "Cmd+A", "PASS"), Case("019", "Cmd+Shift+A", "FAIL"),
      Case("020", "Cmd+B", "PASS"), Case("021", "Cmd+.", "PASS"),
      Case("022", "Tab", "PASS"), Case("023", "Shift+Tab", "PASS"),
      Case("024", "[", "UNTESTED"), Case("025", "]", "UNTESTED"),
      Case("026", "Enter", "UNTESTED"), Case("027", "L/V", "UNTESTED"),
      Case("028", "Cmd+U", "UNTESTED")>>

\* "Total Tests: 26" and "Total Tests to Run: 21", the headers of run_all_tests
HeaderTotal == 26
shortcut_tests_HeaderTotal == 21

OwnCatalog(s) == IF s = SlashyTest THEN Catalog ELSE shortcut_tests_Catalog

\* The literals the run records: the script's own, and shorter lists that
\* end in each of the three verdicts and in an empty recorder.
DriverCatalogs(s) ==
    {OwnCatalog(s), SummaryCalls(0, 0), SummaryCalls(5, 5), SummaryCalls(5, 3),
     SummaryCalls(4, 1)}

Printed(line, value) == [line |-> line, value |-> value]

\* faulty variant: the recorder of the run before is used again
DriverStart_keeps_recorder ==
    /\ proc.pc = "shell"
    /\ clock < MaxRuns
    /\ proc' = [proc EXCEPT !.pc = "run_all_tests",
                            !.i = 0,
                            !.tester = IF proc.tester # None THEN proc.tester
                                       ELSE IF script = SlashyTest
                                       THEN SlashyShortcutTester(clock)
                                       ELSE shortcut_tests_SlashyShortcutTester(clock),
                            !.stdout = <<>>,
                            !.returncode = None]
    /\ clock' = clock + 1
    /\ UNCHANGED <<page, script, tester, ret, json_output, cwd, fs, req, drv>>

\* python3 <script>: main() constructs the recorder and calls run_all_tests
DriverStart ==
    /\ proc.pc = "shell"
    /\ clock < MaxRuns
    /\ proc' = [proc EXCEPT !.pc = "run_all_tests",
                            !.i = 0,
                            !.tester = IF script = SlashyTest
                                       THEN SlashyShortcutTester(clock)
                                       ELSE shortcut_tests_SlashyShortcutTester(clock),
                            !.stdout = <<>>,
                            !.returncode = None]
    /\ clock' = clock + 1
    /\ UNCHANGED <<page, script, tester, ret, json_output, cwd, fs, req, drv>>

\* run_all_tests: the banner with the announced number of tests
RunHeader ==
    /\ proc.pc = "run_all_tests"
    /\ proc' = [proc EXCEPT !.pc = "record_test",
                            !.stdout = Append(@, Printed("header",
                                IF script = SlashyTest THEN HeaderTotal
                                ELSE shortcut_tests_HeaderTotal))]
    /\ UNCHANGED <<page, script, tester, ret, json_output, cwd, fs, clock, req, drv>>

\* run_all_tests: the next record_test call of the list
RunRecordTest ==
    /\ proc.pc = "record_test"
    /\ proc.i < Len(proc.catalog)
    /\ LET call == proc.catalog[proc.i + 1]
       IN  proc' =
             IF script = SlashyTest
             THEN [proc EXCEPT !.i = @ + 1,
                               !.tester = record_test(@, call.shortcut, call.status),
                               !.stdout = Append(@, Printed("result", call.status))]
             ELSE [proc EXCEPT !.i = @ + 1,
                               !.tester = shortcut_tests_record_test(
                                              @, call.test_id, call.shortcut, call.status)]
    /\ UNCHANGED <<page, script, tester, ret, json_output, cwd, fs, clock, req, drv>>

\* faulty variant: the summary printed and the report built before the last
\* record_test call was made
RunPrintSummary_early ==
    /\ proc.pc = "record_test"
    /\ proc.i + 1 >= Len(proc.catalog)
    /\ proc' =
          IF script = SlashyTest
          THEN [proc EXCEPT !.pc = "save_json_report",
                            !.stdout = Append(@, Printed("summary",
                                                         print_summary(proc.tester)))]
          ELSE [proc EXCEPT !.pc = "print_detailed_results",
                            !.stdout = Append(@, Printed("summary",
                                              shortcut_tests_print_summary(proc.tester)))]
    /\ UNCHANGED <<page, script, tester, ret, json_output, cwd, fs, clock, req, drv>>

\* run_all_tests: self.print_summary() after the last record_test call
RunPrintSummary ==
    /\ proc.pc = "record_test"
    /\ proc.i = Len(proc.catalog)
    /\ proc' =
          IF script = SlashyTest
          THEN [proc EXCEPT !.pc = "save_json_report",
                            !.stdout = Append(@, Printed("summary",
                                                         print_summary(proc.tester)))]
          ELSE [proc EXCEPT !.pc = "print_detailed_results",
                            !.stdout = Append(@, Printed("summary",
                                              shortcut_tests_print_summary(proc.tester)))]
    /\ UNCHANGED <<page, script, tester, ret, json_output, cwd, fs, clock, req, drv>>

\* run_all_tests of slashy_shortcut_tests.py: self.print_detailed_results()
RunPrintDetailedResults ==
    /\ proc.pc = "print_detailed_results"
    /\ proc' = [proc EXCEPT !.pc = "save_json_report",
                            !.stdout = Append(@, Printed("details",
                                shortcut_tests_print_detailed_results(proc.tester)))]
    /\ UNCHANGED <<page, script, tester, ret, json_output, cwd, fs, clock, req, drv>>

\* faulty variant: the I/O error caught inside save_json_report, which then
\* returns as if nothing had happened
RunSaveJsonReport_swallowing ==
    /\ proc.pc = "save_json_report"
    /\ script = SlashyTest
    /\ \/ /\ fs' = [fs EXCEPT ![cwd] =
                       Written(json_dump(report_dict(proc.tester, clock), proc.tester))]
          /\ proc' = [proc EXCEPT !.pc = "return",
                                  !.stdout = Append(@, Printed("saved",
                                                               "slashy_test_report.json"))]
       \/ /\ UNCHANGED fs
          /\ proc' = [proc EXCEPT !.pc = "return"]
       \/ /\ fs' = [fs EXCEPT ![cwd] = Truncated]
          /\ proc' = [proc EXCEPT !.pc = "return"]
    /\ UNCHANGED <<page, script, tester, ret, json_output, cwd, clock, req, drv>>

\* run_all_tests of slashy_test.py: self.save_json_report().  The file is
\* written and the confirmation printed; or open() raises and the file is
\* untouched; or the write raises and leaves the file cut short.  Nothing
\* catches the exception: the interpreter exits with status 1.
RunSaveJsonReport ==
    /\ proc.pc = "save_json_report"
    /\ script = SlashyTest
    /\ \/ /\ fs' = [fs EXCEPT ![cwd] =
                       Written(json_dump(report_dict(proc.tester, clock), proc.tester))]
          /\ proc' = [proc EXCEPT !.pc = "return",
                                  !.stdout = Append(@, Printed("saved",
                                                               "slashy_test_report.json"))]
       \/ /\ UNCHANGED fs
          /\ proc' = [proc EXCEPT !.pc = "exited", !.returncode = "1"]
       \/ /\ fs' = [fs EXCEPT ![cwd] = Truncated]
          /\ proc' = [proc EXCEPT !.pc = "exited", !.returncode = "1"]
    /\ UNCHANGED <<page, script, tester, ret, json_output, cwd, clock, req, drv>>

\* run_all_tests of slashy_shortcut_tests.py: self.save_json_report()
\* prints the JSON text; no file is written
ShortcutTestsRunSaveJsonReport ==
    /\ proc.pc = "save_json_report"
    /\ script = ShortcutTests
    /\ json_output' = Written(json_dump(shortcut_tests_report_dict(proc.tester, clock),
                                        proc.tester))
    /\ proc' = [proc EXCEPT !.pc = "return",
                            !.stdout = Append(@, Printed("json", json_output'))]
    /\ UNCHANGED <<page, script, tester, ret, cwd, fs, clock, req, drv>>

\* faulty variant: a run whose verdict is the lowest exits with status 1
MainReturn_exit_by_status ==
    /\ proc.pc = "return"
    /\ proc' =
          IF script = SlashyTest
          THEN [proc EXCEPT !.pc = "exited",
                            !.returncode =
                                IF print_summary(proc.tester).overall_status
                                       = "NEEDS IMPROVEMENT"
                                THEN "1" ELSE "0"]
          ELSE [proc EXCEPT !.pc = "exited",
                            !.returncode =
                                IF shortcut_tests_main_status(proc.tester)
                                       = "NEEDS IMPROVEMENT"
                                THEN "1" ELSE "0",
                            !.stdout = Append(@, Printed("verdict",
                                              shortcut_tests_main_status(proc.tester)))]
    /\ UNCHANGED <<page, script, tester, ret, json_output, cwd, fs, clock, req, drv>>

\* main() returns (slashy_shortcut_tests.py prints its verdict first) and
\* the interpreter exits with status 0
MainReturn ==
    /\ proc.pc = "return"
    /\ proc' =
          IF script = SlashyTest
          THEN [proc EXCEPT !.pc = "exited", !.returncode = "0"]
          ELSE [proc EXCEPT !.pc = "exited", !.returncode = "0",
                            !.stdout = Append(@, Printed("verdict",
                                              shortcut_tests_main_status(proc.tester)))]
    /\ UNCHANGED <<page, script, tester, ret, json_output, cwd, fs, clock, req, drv>>

\* the script is run again: a new process
DriverAgain ==
    /\ proc.pc = "exited"
    /\ clock < MaxRuns
    /\ proc' = [proc EXCEPT !.pc = "shell"]
    /\ UNCHANGED <<page, script, tester, ret, json_output, cwd, fs, clock, req, drv>>

DriverInit ==
    /\ script \in Scripts
    /\ tester = NewTester(script)
    /\ ret = Returned("__init__", None, None)
    /\ json_output = Absent
    /\ cwd \in Dirs
    /\ fs = [d \in Dirs |-> Absent]
    /\ clock = 0
    /\ req = [r \in Requests |-> NoRequest]
    /\ drv = [r \in Requests |-> NoDriver]
    /\ \E catalog \in DriverCatalogs(script) :
          proc = [NoProcess EXCEPT !.catalog = catalog]
    /\ page = NoPage

DriverNext ==
    \/ DriverStart
    \/ RunHeader
    \/ RunRecordTest
    \/ RunPrintSummary
    \/ RunPrintDetailedResults
    \/ RunSaveJsonReport
    \/ ShortcutTestsRunSaveJsonReport
    \/ MainReturn
    \/ DriverAgain

SpecDriver == DriverInit /\ [][DriverNext]_vars

\* A started interpreter keeps executing its straight-line code: the steps
\* of one run are taken as long as one is possible.  Starting a run is up to
\* whoever types the command and is under no such condition.
DriverRunStep ==
    \/ RunHeader
    \/ RunRecordTest
    \/ RunPrintSummary
    \/ RunPrintDetailedResults
    \/ RunSaveJsonReport
    \/ ShortcutTestsRunSaveJsonReport
    \/ MainReturn

SpecDriverFair == DriverInit /\ [][DriverNext]_vars /\ WF_vars(DriverRunStep)

\* ------------------------------------------- app.py: the page served at /
\* displayResults(data): the status bar from summary.pass_rate, the four
\* summary figures, one row per test.  (The percentage text of the status
\* bar is not part of the record.)
displayResults(data) ==
    LET summary == data.summary
        tests == data.test_results
    IN  [statusClass |-> IF GE(summary.pass_rate, 80) THEN "status-ready"
                         ELSE IF GE(summary.pass_rate, 60) THEN "status-functional"
                         ELSE "status-needs-work",
         statusText |-> IF GE(summary.pass_rate, 80) THEN "PRODUCTION READY"
                        ELSE IF GE(summary.pass_rate, 60) THEN "MOSTLY FUNCTIONAL"
                        ELSE "NEEDS IMPROVEMENT",
         summary |-> [total_tests |-> summary.total_tests, passed |-> summary.passed,
                      failed |-> summary.failed, partial |-> summary.partial],
         test_list |-> [k \in 1..Len(tests) |->
                          [shortcut |-> tests[k].shortcut,
                           status |-> tests[k].status,
                           badgeClass |-> IF tests[k].status = "PASS" THEN "badge-pass"
                                          ELSE IF tests[k].status = "FAIL" THEN "badge-fail"
                                          ELSE "badge-partial"]]]

\* the finally block of runTests
Finally(p) ==
    [p EXCEPT !.disabled = FALSE, !.spinner = "none", !.btn_text = "Run Tests Again",
              !.inflight = @ - 1]

\* faulty variant: the button left enabled while the request is out
PageClick_button_stays_enabled ==
    /\ ~page.disabled
    /\ page.clicks < MaxClicks
    /\ page' = [page EXCEPT !.spinner = "block", !.btn_text = "Running...",
                            !.inflight = @ + 1, !.clicks = @ + 1]
    /\ UNCHANGED <<script, tester, ret, json_output, cwd, fs, clock, req, drv, proc>>

\* a click on the Run button (a disabled button gets none): runTests up to
\* the await of fetch('/run-tests')
PageClick ==
    /\ ~page.disabled
    /\ page.clicks < MaxClicks
    /\ page' = [page EXCEPT !.disabled = TRUE, !.spinner = "block",
                            !.btn_text = "Running...", !.inflight = @ + 1,
                            !.clicks = @ + 1]
    /\ UNCHANGED <<script, tester, ret, json_output, cwd, fs, clock, req, drv, proc>>

\* the request never reaches the handler: fetch rejects, the catch block
\* alerts, then the finally block
PageFetchRejected ==
    /\ page.inflight > 0
    /\ req["A"].pc = "idle"
    /\ page' = Finally([page EXCEPT !.alerts = Append(@, "Failed to fetch")])
    /\ UNCHANGED <<script, tester, ret, json_output, cwd, fs, clock, req, drv, proc>>

\* the page's request in the server: the handler and the driver it starts
PageServed ==
    /\ page.inflight > 0
    /\ \/ RunTestsStart("A")
       \/ DriverMain("A")
       \/ DriverSaveOpen("A")
       \/ DriverSaveDump("A")
       \/ RunTestsRead("A")

\* the response arrives.  A 200 carries the report: response.json(),
\* displayResults, the panel shown.  A 500 carries the server's HTML error
\* page: response.json() throws and the catch block alerts.  Then the
\* finally block.
PageSettled ==
    /\ page.inflight > 0
    /\ req["A"].pc = "done"
    /\ page' =
          IF req["A"].response.status = "200"
          THEN Finally([page EXCEPT !.panel = displayResults(req["A"].response.body),
                                    !.results = "block"])
          ELSE Finally([page EXCEPT !.alerts = Append(@, "SyntaxError")])
    /\ req' = [req EXCEPT !["A"] = NoRequest]
    /\ UNCHANGED <<script, tester, ret, json_output, cwd, fs, clock, drv, proc>>

\* another client of the same server
OtherClient ==
    \/ RunTestsStart("B")
    \/ DriverMain("B")
    \/ DriverSaveOpen("B")
    \/ DriverSaveDump("B")
    \/ RunTestsRead("B")
    \/ RunTestsAgain("B")

PageInit == WebInit

PageNext ==
    \/ PageClick
    \/ PageFetchRejected
    \/ PageServed
    \/ PageSettled
    \/ OtherClient

SpecPage == PageInit /\ [][PageNext]_vars

\* A request that is out settles: the server runs its handler and the driver
\* to the end (the driver terminates), and the browser resumes runTests when
\* the promise is settled.  Clicks and the other client are under no such
\* condition.
PageRequestStep == PageFetchRejected \/ PageServed \/ PageSettled

SpecPageFair == PageInit /\ [][PageNext]_vars /\ WF_vars(PageRequestStep)

\* ------------------------------- the verdict on the console and on the page
\* A slashy_test.py recorder after the record_test calls `calls`, written
\* out rather than replayed call by call (the lists here are long): the
\* list has one entry per call and each counter the number of calls with
\* its status.
Recorded(calls) ==
    LET with(status) == Cardinality({k \in 1..Len(calls) : calls[k].status = status})
    IN  [test_results |-> [k \in 1..Len(calls) |->
                             [shortcut |-> calls[k].shortcut, status |-> calls[k].status]],
         total_tests |-> Len(calls), passed_tests |-> with("PASS"),
         failed_tests |-> with("FAIL"), partial_tests |-> with("PARTIAL"),
         error_tests |-> with("ERROR"), start_time |-> 0]

\* <<total, passed>>: every pair up to MaxCount, and pairs around the two
\* smallest pass rates that are below a threshold by less than 0.005
StatusCounts ==
    {<<total, passed>> \in (0..MaxCount) \X (0..MaxCount) : passed <= total}
        \cup {<<4004, passed>> : passed \in 3202..3204}
        \cup {<<4002, passed>> : passed \in 2400..2402}

\* run_tests reads the report next to app.py and the page shows it
ShowReport ==
    /\ fs["appdir"].state = "written"
    /\ page' = [page EXCEPT !.panel = displayResults(read_report(fs["appdir"]).body),
                            !.results = "block"]
    /\ UNCHANGED <<script, tester, ret, json_output, cwd, fs, clock, req, drv, proc>>

StatusInit ==
    /\ script = SlashyTest
    /\ \E counts \in StatusCounts :
          tester = Recorded(SummaryCalls(counts[1], counts[2]))
    /\ ret = Returned("record_test", None, None)
    /\ json_output = Absent
    /\ cwd = "appdir"
    /\ fs = [d \in Dirs |-> Absent]
    /\ clock = 0
    /\ req = [r \in Requests |-> NoRequest]
    /\ drv = [r \in Requests |-> NoDriver]
    /\ proc = NoProcess
    /\ page = NoPage

StatusNext ==
    \/ PrintSummary
    \/ SaveJsonReport
    \/ ShowReport

SpecStatus == StatusInit /\ [][StatusNext]_vars

\* ------------------------------------------------------------ properties
Count(self, S) ==
    Cardinality({i \in 1..Len(self.test_results) : self.test_results[i].status \in S})

StatusesOf(self) ==
    [i \in 1..Len(self.test_results) |-> self.test_results[i].status]

IsPrefix(s, t) == Len(s) <= Len(t) /\ SubSeq(t, 1, Len(s)) = s

PassRate ==
    IF script = SlashyTest THEN get_pass_rate(tester)
    ELSE shortcut_tests_get_pass_rate(tester)

BucketSum ==
    tester.passed_tests + tester.failed_tests + tester.partial_tests
        + tester.error_tests

\* C1: after any sequence of record_test calls on a fresh recorder,
\* total_tests equals the length of test_results.
C1_TotalIsLength == tester.total_tests = Len(tester.test_results)

C1_Witness ==
    /\ tester.total_tests >= 2
    /\ Count(tester, Tracked) >= 1
    /\ Count(tester, Statuses \ Tracked) >= 1

\* C2: each bucket counter equals the number of recorded outcomes carrying
\* that status; recording PASS, PASS, FAIL, PARTIAL gives total 4, passed 2,
\* failed 1, partial 1 and pass rate 50.0.
C2_BucketsCountStatuses ==
    /\ tester.passed_tests = Count(tester, {"PASS"})
    /\ tester.failed_tests = Count(tester, {"FAIL"})
    /\ tester.partial_tests = Count(tester, {"PARTIAL"})
    /\ script = SlashyTest => tester.error_tests = Count(tester, {"ERROR"})
    /\ StatusesOf(tester) = <<"PASS", "PASS", "FAIL", "PARTIAL">> =>
          /\ tester.total_tests = 4
          /\ tester.passed_tests = 2
          /\ tester.failed_tests = 1
          /\ tester.partial_tests = 1
          /\ EqF(PassRate, Float(50, 1))

C2_Witness == StatusesOf(tester) = <<"PASS", "PASS", "FAIL", "PARTIAL">>

\* C3: in slashy_test.py, total = passed + failed + partial + errored + the
\* number of recorded outcomes whose status is outside {PASS, FAIL, PARTIAL,
\* ERROR}; so the four buckets sum to at most total, with equality exactly
\* when no such outcome was recorded.
C3_TotalIsBucketsPlusUntracked ==
    script = SlashyTest =>
        /\ tester.total_tests = BucketSum + Count(tester, Statuses \ Tracked)
        /\ BucketSum <= tester.total_tests
        /\ BucketSum = tester.total_tests <=> Count(tester, Statuses \ Tracked) = 0

C3_Witness ==
    /\ script = SlashyTest
    /\ tester.error_tests >= 1
    /\ Count(tester, Statuses \ Tracked) >= 1
    /\ BucketSum < tester.total_tests

\* C4: record_test with a status outside {PASS, FAIL, PARTIAL, ERROR} raises
\* nothing, appends the outcome, adds one to total_tests and leaves
\* passed_tests, failed_tests, partial_tests and error_tests as they were.
C4_UntrackedStatusAccepted ==
    [][(ret'.op = "record_test" /\ ret'.args.status \notin Tracked) =>
            /\ Len(tester'.test_results) = Len(tester.test_results) + 1
            /\ SubSeq(tester'.test_results, 1, Len(tester.test_results))
                  = tester.test_results
            /\ tester'.test_results[Len(tester'.test_results)].status
                  = ret'.args.status
            /\ tester'.test_results[Len(tester'.test_results)].shortcut
                  = ret'.args.shortcut
            /\ tester'.total_tests = tester.total_tests + 1
            /\ tester'.passed_tests = tester.passed_tests
            /\ tester'.failed_tests = tester.failed_tests
            /\ tester'.partial_tests = tester.partial_tests
            /\ script = SlashyTest => tester'.error_tests = tester.error_tests
            /\ ret'.value = None]_vars

C4_Witness ==
    /\ script = SlashyTest
    /\ ret.op = "record_test"
    /\ ret.args.status = "SKIPPED"
    /\ tester.total_tests >= 2
    /\ BucketSum = tester.total_tests - 1

\* C5: test_results is append-only and insertion-ordered: every call on the
\* recorder keeps the outcomes already recorded, unmodified and in order;
\* only record_test adds one, at the end.
C5_AppendOnly ==
    [][/\ IsPrefix(tester.test_results, tester'.test_results)
       /\ Len(tester'.test_results) <= Len(tester.test_results) + 1
       /\ ret'.op # "record_test" => tester'.test_results = tester.test_results]_vars

C5_Witness ==
    /\ Len(tester.test_results) >= 3
    /\ tester.test_results[1].status # tester.test_results[2].status
    /\ ret.op = "record_test"
    /\ \/ fs[cwd].state = "written"
       \/ json_output.state = "written"

\* C6: get_pass_rate returns passed_tests / total_tests * 100 when
\* total_tests > 0 and exactly 0.0 when total_tests = 0, never a division
\* error; it changes no recorder state and its value lies in 0..100.
C6_PassRate ==
    [][ret'.op = "get_pass_rate" =>
            /\ tester' = tester
            /\ ret'.value.exc = "float"
            /\ tester.total_tests = 0 => ret'.value = Float(0, 1)
            /\ tester.total_tests > 0 =>
                  ret'.value.num * tester.total_tests
                      = 100 * tester.passed_tests * ret'.value.den
            /\ GE(ret'.value, 0)
            /\ LE(ret'.value, 100)]_vars

C6_Witness ==
    /\ ret.op = "get_pass_rate"
    /\ tester.passed_tests > 0
    /\ tester.passed_tests < tester.total_tests

\* C7: the overall status depends on the pass rate alone: >= 80 gives
\* PRODUCTION READY, >= 60 and < 80 MOSTLY FUNCTIONAL, < 60 NEEDS
\* IMPROVEMENT; an empty recorder gives NEEDS IMPROVEMENT and 17 PASS out of
\* 21 outcomes PRODUCTION READY.
ExpectedStatus(passed, total) ==
    IF total > 0 /\ 100 * passed >= 80 * total THEN "PRODUCTION READY"
    ELSE IF total > 0 /\ 100 * passed >= 60 * total THEN "MOSTLY FUNCTIONAL"
    ELSE "NEEDS IMPROVEMENT"

PrintedStatus ==
    IF ret.op = "main" THEN ret.value ELSE ret.value.overall_status

StatusPrinted ==
    \/ ret.op = "main"
    \/ ret.op = "print_summary" /\ script = SlashyTest

C7_StatusFromPassRate ==
    StatusPrinted =>
        /\ PrintedStatus = ExpectedStatus(tester.passed_tests, tester.total_tests)
        /\ tester.total_tests = 0 => PrintedStatus = "NEEDS IMPROVEMENT"
        /\ (tester.total_tests = 21 /\ tester.passed_tests = 17) =>
              PrintedStatus = "PRODUCTION READY"

C7_Witness ==
    /\ script = SlashyTest
    /\ ret.op = "print_summary"
    /\ tester.total_tests = 21
    /\ tester.passed_tests = 17
    /\ ret.value.overall_status = "PRODUCTION READY"

\* C8: for every /run-tests request the response carries the report written
\* by the driver this request started, never an earlier run's report and
\* never an error, whatever the driver's exit status and the server's
\* working directory.
C8_ResponseIsOwnRunReport ==
    \A r \in Requests :
        req[r].pc = "done" =>
            /\ req[r].response.status = "200"
            /\ req[r].response.body.metadata.start_time = drv[r].tester.start_time

\* C9: nothing keeps a request from reading slashy_test_report.json while
\* another request's driver has it open for writing, nor a driver from
\* opening it: a handler whose driver has exited can always read, and a
\* driver that reached save_json_report can always open.
C9_NoExclusionOnReportFile ==
    \A r \in Requests :
        /\ (req[r].pc = "subprocess" /\ drv[r].pc = "exited") => ENABLED RunTestsRead(r)
        /\ drv[r].pc = "save_json_report" => ENABLED DriverSaveOpen(r)

\* a request answered with an unparsable report although its own driver
\* wrote the report and exited 0: the other request's driver has the file
\* open and has not finished writing
C9_Witness ==
    \E r, d \in Requests :
        /\ r # d
        /\ cwd = "appdir"
        /\ req[r].pc = "done"
        /\ drv[r].returncode = "0"
        /\ req[r].response.error = "JSONDecodeError"
        /\ drv[d].pc = "json.dump"
        /\ fs["appdir"].state = "truncated"

\* C10: a report built by save_json_report is a snapshot: a record_test
\* call made after it was built changes neither its test_results nor its
\* summary.
BuiltReport == IF script = SlashyTest THEN fs[cwd] ELSE json_output

C10_ReportIsSnapshot ==
    [][(ret'.op = "record_test" /\ BuiltReport.state = "written") =>
            /\ BuiltReport'.state = "written"
            /\ ReportResults(BuiltReport'.doc, tester')
                  = ReportResults(BuiltReport.doc, tester)
            /\ BuiltReport'.doc.summary = BuiltReport.doc.summary
            /\ Len(ReportResults(BuiltReport'.doc, tester'))
                  = BuiltReport'.doc.summary.total_tests]_vars

C10_Witness ==
    /\ script = SlashyTest
    /\ ret.op = "record_test"
    /\ fs[cwd].state = "written"
    /\ fs[cwd].doc.summary.total_tests >= 1
    /\ Len(tester.test_results) > fs[cwd].doc.summary.total_tests

\* C11: writing the report with save_json_report and parsing it back gives
\* a summary with the recorder's total_tests, passed, failed and partial, a
\* pass_rate equal to get_pass_rate() rounded to 2 decimal places, and the
\* recorder's outcomes in the same order.
\* h hundredths is a nearest multiple of 0.01 to passed / total * 100
NearestHundredth(h, passed, total) ==
    IF total = 0 THEN h = 0
    ELSE /\ 2 * (h * total - 10000 * passed) <= total
         /\ 2 * (10000 * passed - h * total) <= total

C11_ReportRoundTrip ==
    (ret.op = "save_json_report" /\ BuiltReport.state = "written") =>
        LET parsed == json_load(BuiltReport.doc)
        IN  /\ parsed.summary.total_tests = tester.total_tests
            /\ parsed.summary.passed = tester.passed_tests
            /\ parsed.summary.failed = tester.failed_tests
            /\ parsed.summary.partial = tester.partial_tests
            /\ parsed.summary.pass_rate.exc = "float"
            /\ parsed.summary.pass_rate.den = 100
            /\ NearestHundredth(parsed.summary.pass_rate.num,
                                tester.passed_tests, tester.total_tests)
            /\ parsed.test_results = tester.test_results

C11_Witness ==
    /\ script = SlashyTest
    /\ ret.op = "save_json_report"
    /\ fs[cwd].state = "written"
    /\ tester.total_tests = 3
    /\ tester.passed_tests = 2
    /\ tester.failed_tests = 1
    /\ json_load(fs[cwd].doc).summary.pass_rate = Float(6667, 100)
    /\ tester.test_results[1].status = "FAIL"


\* ---------------------------------------------------------------- C12
StatusesIn(results) == [k \in 1..Len(results) |-> results[k].status]
CatalogStatuses(calls) == [k \in 1..Len(calls) |-> calls[k].status]

\* C12: every run of slashy_test.py starts from a fresh recorder and
\* overwrites the report file.  Whatever report the file holds is the report
\* of one run only: its total_tests is the size of the list the run records
\* (26 for the script's own list) and its test_results are that list's
\* outcomes in order; and when a run has ended normally, the file holds that
\* run's report (its start time, its outcomes), however many runs came before.
C12_LatestRunOnly ==
    script = SlashyTest =>
        /\ fs[cwd].state = "written" =>
              LET parsed == json_load(fs[cwd].doc)
              IN  /\ parsed.summary.total_tests = Len(proc.catalog)
                  /\ proc.catalog = Catalog => parsed.summary.total_tests = 26
                  /\ StatusesIn(parsed.test_results) = CatalogStatuses(proc.catalog)
        /\ (proc.pc = "exited" /\ proc.returncode = "0") =>
              /\ fs[cwd].state = "written"
              /\ LET parsed == json_load(fs[cwd].doc)
                 IN  /\ parsed.metadata.start_time = clock - 1
                     /\ parsed.metadata.start_time = proc.tester.start_time
                     /\ parsed.test_results = proc.tester.test_results
                     /\ parsed.summary.total_tests = proc.tester.total_tests

\* the third consecutive run of slashy_test.py has ended normally
C12_Witness ==
    /\ script = SlashyTest
    /\ proc.catalog = Catalog
    /\ clock = 3
    /\ proc.pc = "exited"
    /\ proc.returncode = "0"
    /\ fs[cwd].state = "written"
    /\ json_load(fs[cwd].doc).summary.total_tests = 26
    /\ json_load(fs[cwd].doc).metadata.start_time = 2


\* ---------------------------------------------------------------- C13
\* the record_test calls that made the recorder's list, in order
CallsOf(self) ==
    [k \in 1..Len(self.test_results) |->
        Case(IF script = SlashyTest THEN "" ELSE self.test_results[k].test_id,
             self.test_results[k].shortcut, self.test_results[k].status)]

\* the same calls with the k-th and the one after it exchanged
Swapped(calls, k) ==
    [j \in 1..Len(calls) |->
        IF j = k THEN calls[k + 1] ELSE IF j = k + 1 THEN calls[k] ELSE calls[j]]

PassRateAfter(calls) ==
    LET self == Replay(script, NewTester(script), calls)
    IN  IF script = SlashyTest THEN get_pass_rate(self)
        ELSE shortcut_tests_get_pass_rate(self)

\* C13: get_pass_rate depends only on how many times each status was
\* recorded.  The calls that made any recorder, replayed on a new recorder,
\* give the recorder's pass rate, and so do they with any two neighbours
\* exchanged (every reordering is a chain of such exchanges, and every
\* sequence of calls is a recorder the program reaches).
C13_PassRateOrderFree ==
    /\ EqF(PassRateAfter(CallsOf(tester)), PassRate)
    /\ \A k \in 1..(Len(tester.test_results) - 1) :
          EqF(PassRateAfter(Swapped(CallsOf(tester), k)), PassRate)

\* FAIL, PASS, PARTIAL recorded in that order, and the pass rate asked for:
\* a third, as for PASS, FAIL, PARTIAL
C13_Witness ==
    /\ script = SlashyTest
    /\ ret.op = "get_pass_rate"
    /\ StatusesIn(tester.test_results) = <<"FAIL", "PASS", "PARTIAL">>
    /\ EqF(ret.value, TrueDiv(100, 3))
    /\ EqF(PassRateAfter(Swapped(CallsOf(tester), 1)), ret.value)


\* ---------------------------------------------------------------- C14
HasLine(line) == \E k \in 1..Len(proc.stdout) : proc.stdout[k].line = line

\* the verdict the run printed: in the summary of slashy_test.py, in the
\* last line of main() of slashy_shortcut_tests.py
RunVerdict ==
    IF script = SlashyTest THEN print_summary(proc.tester).overall_status
    ELSE shortcut_tests_main_status(proc.tester)

\* C14: the driver process ends with exit code 0 for every pass rate.  A
\* process that has ended has status 0 unless save_json_report raised (the
\* confirmation line is then missing); when main() returned, the status is 0
\* whichever of the verdicts was printed.
C14_ExitZeroForEveryPassRate ==
    proc.pc = "exited" =>
        /\ proc.returncode \in {"0", "1"}
        /\ proc.returncode = "1" => (script = SlashyTest /\ ~HasLine("saved"))
        /\ (HasLine("saved") \/ HasLine("verdict")) => proc.returncode = "0"

\* a run of slashy_test.py with one test in four passed has printed NEEDS
\* IMPROVEMENT, saved its report and ended with status 0
C14_Witness ==
    /\ script = SlashyTest
    /\ proc.pc = "exited"
    /\ proc.returncode = "0"
    /\ HasLine("saved")
    /\ proc.tester.total_tests = 4
    /\ proc.tester.passed_tests = 1
    /\ RunVerdict = "NEEDS IMPROVEMENT"
    /\ \E k \in 1..Len(proc.stdout) :
          /\ proc.stdout[k].line = "summary"
          /\ proc.stdout[k].value.overall_status = "NEEDS IMPROVEMENT"


\* ---------------------------------------------------------------- C15
LinesOf(line) == {k \in 1..Len(proc.stdout) : proc.stdout[k].line = line}
Line(line) == proc.stdout[CHOOSE k \in LinesOf(line) : TRUE].value

\* once the summary is printed every record_test call of the list has been
\* made; once the confirmation is printed the file holds a report with the
\* counts the console summary showed, and was confirmed once
C15_Order ==
    /\ proc.pc \in {"print_detailed_results", "save_json_report", "return"} =>
          /\ proc.i = Len(proc.catalog)
          /\ proc.tester.total_tests = Len(proc.catalog)
          /\ Cardinality(LinesOf("summary")) = 1
    /\ proc.pc = "record_test" => LinesOf("summary") = {}
    /\ (script = SlashyTest /\ HasLine("saved")) =>
          /\ Cardinality(LinesOf("saved")) = 1
          /\ Cardinality(LinesOf("summary")) = 1
          /\ fs[cwd].state = "written"
          /\ LET persisted == json_load(fs[cwd].doc).summary
                 console == Line("summary")
             IN  /\ persisted.total_tests = console.total
                 /\ persisted.passed = console.passed
                 /\ persisted.failed = console.failed
                 /\ persisted.partial = console.partial
                 /\ persisted.errors = console.errors
                 /\ persisted.total_tests = Len(proc.catalog)

\* the recorder changes only in record_test calls (or is replaced by the next
\* run's); the file changes only in the one save_json_report call, which is
\* left after a single attempt
C15_Steps ==
    /\ proc'.tester # proc.tester => proc.pc \in {"shell", "record_test"}
    /\ fs' # fs => proc.pc = "save_json_report"
    /\ (proc.pc = "save_json_report" /\ proc' # proc) => proc'.pc \in {"return", "exited"}
    /\ (proc.pc \in {"return", "exited"} /\ proc'.pc # "run_all_tests") =>
          (fs' = fs /\ proc'.tester = proc.tester)

\* C15: in one driver run every record_test call happens before the report
\* is built, the report is built and persisted once, at the end, the console
\* summary and the persisted report show the same counts, and the run
\* terminates.
C15_RunOnceToTheEnd ==
    /\ []C15_Order
    /\ [][C15_Steps]_vars
    /\ (proc.pc = "run_all_tests") ~> (proc.pc = "exited")

\* the run of the 26 calls of slashy_test.py has ended with its report saved
C15_Witness ==
    /\ script = SlashyTest
    /\ proc.catalog = Catalog
    /\ proc.pc = "exited"
    /\ proc.returncode = "0"
    /\ HasLine("saved")
    /\ Line("summary").total = 26
    /\ Line("summary").passed = 19
    /\ json_load(fs[cwd].doc).summary.passed = 19
    /\ json_load(fs[cwd].doc).summary.failed = 6


\* ---------------------------------------------------------------- C16
\* the file this save_json_report call leaves when nothing fails
SavedNow == Written(json_dump(report_dict(proc.tester, clock), proc.tester))

\* a process ended by the I/O error: no confirmation was printed and the
\* recorder is as the record_test calls left it
C16_AfterFailure ==
    (proc.pc = "exited" /\ proc.returncode = "1") =>
        /\ script = SlashyTest
        /\ ~HasLine("saved")
        /\ fs[cwd] # Written(json_dump(report_dict(proc.tester, clock), proc.tester))
        /\ proc.tester = Replay(SlashyTest, SlashyShortcutTester(proc.tester.start_time),
                                proc.catalog)

\* a save_json_report call that does not leave its report in the file ends
\* the process at once with status 1, prints nothing and leaves the recorder
\* alone; no later step of that process touches the file
C16_FailingSave ==
    /\ (proc.pc = "save_json_report" /\ script = SlashyTest /\ proc' # proc
          /\ fs'[cwd] # SavedNow) =>
          /\ proc'.pc = "exited"
          /\ proc'.returncode = "1"
          /\ proc'.stdout = proc.stdout
          /\ proc'.tester = proc.tester
          /\ fs'[cwd] \in {fs[cwd], Truncated}
    /\ (proc.pc = "exited" /\ proc'.pc = "shell") =>
          (fs' = fs /\ proc'.tester = proc.tester /\ proc'.stdout = proc.stdout)

\* C16: when the report file cannot be opened or written, save_json_report
\* does not catch the failure: the error propagates (the process exits with
\* status 1), the confirmation is not printed, no second attempt is made and
\* the recorder's counts and test_results are unchanged.
C16_IOErrorPropagates == []C16_AfterFailure /\ [][C16_FailingSave]_vars

\* the write failed after the file was opened: the process has ended with
\* status 1, the file is cut short, the recorder still holds the 26 outcomes
C16_Witness ==
    /\ script = SlashyTest
    /\ proc.catalog = Catalog
    /\ proc.pc = "exited"
    /\ proc.returncode = "1"
    /\ fs[cwd] = Truncated
    /\ ~HasLine("saved")
    /\ proc.tester.total_tests = 26
    /\ proc.tester.passed_tests = 19
    /\ Len(proc.tester.test_results) = 26


\* ---------------------------------------------------------------- C17
\* C17: in each driver script the number of tests announced in the header of
\* run_all_tests equals total_tests when run_all_tests finishes.
C17_HeaderIsTotal ==
    (proc.catalog = OwnCatalog(script) /\ proc.pc \in {"return", "exited"}) =>
        Line("header") = proc.tester.total_tests


\* ---------------------------------------------------------------- C18
\* what a state of the page shows: at most one request out, the button
\* disabled and the spinner turning exactly while it is, and the results
\* panel shown exactly when it has been filled
C18_Page ==
    /\ page.inflight \in {0, 1}
    /\ page.disabled <=> page.inflight = 1
    /\ page.spinner = (IF page.disabled THEN "block" ELSE "none")
    /\ page.results = "block" <=> page.panel # None
    /\ ~page.disabled => ~ENABLED (PageFetchRejected \/ PageSettled)

\* what a step may do to the page: a click sends a request from an enabled
\* button and disables it; the panel is filled, and shown, only by a 200
\* response, with that response's report; an alert comes only with a request
\* that failed and leaves the panel alone; every request that settles
\* re-enables the button and hides the spinner
C18_Steps ==
    /\ page'.inflight > page.inflight => (~page.disabled /\ page'.disabled)
    /\ (page'.panel # page.panel \/ page'.results # page.results) =>
          /\ req["A"].pc = "done"
          /\ req["A"].response.status = "200"
          /\ page'.panel = displayResults(req["A"].response.body)
          /\ page'.results = "block"
          /\ page'.alerts = page.alerts
    /\ page'.alerts # page.alerts =>
          /\ req["A"].pc = "idle" \/ req["A"].response.status = "500"
          /\ Len(page'.alerts) = Len(page.alerts) + 1
          /\ page'.panel = page.panel
          /\ page'.results = page.results
    /\ page'.inflight < page.inflight =>
          /\ ~page'.disabled
          /\ page'.spinner = "none"
          /\ page'.btn_text = "Run Tests Again"
          /\ (req["A"].pc = "done" /\ req["A"].response.status = "200") =>
                page'.panel = displayResults(req["A"].response.body)
          /\ ~(req["A"].pc = "done" /\ req["A"].response.status = "200") =>
                page'.alerts # page.alerts

\* C18: each click on the Run button disables it until the request settles,
\* so the page never has two requests out; whether the request succeeds or
\* fails the button is re-enabled and the spinner hidden in the end; the
\* results panel is filled and shown only after a successful response, and
\* a failure shows an alert and leaves the earlier results as they were.
C18_RunButton ==
    /\ []C18_Page
    /\ [][C18_Steps]_vars
    /\ page.disabled ~> (~page.disabled /\ page.spinner = "none")

\* the first request filled the panel; a later one failed with an alert and
\* the panel still shows the first report; the button is enabled again
C18_Witness ==
    /\ page.clicks >= 2
    /\ ~page.disabled
    /\ page.spinner = "none"
    /\ page.btn_text = "Run Tests Again"
    /\ page.results = "block"
    /\ page.panel # None
    /\ page.panel.summary.total_tests = 26
    /\ page.panel.statusText = "MOSTLY FUNCTIONAL"
    /\ Len(page.alerts) = 1


\* ---------------------------------------------------------------- C19
\* C19: for every pair of counts 0 <= passed <= total the status the page
\* derives from the report's pass_rate (rounded to 2 decimals) is the status
\* the driver prints on the console from the unrounded pass rate.
C19_PageStatusIsConsoleStatus ==
    page.panel # None =>
        page.panel.statusText = print_summary(tester).overall_status

====
